---- MODULE Spec2Model ----
(***************************************************************************)
(* A model of marl's TaskGroup (taskgroup.h) and Promise / Future /        *)
(* schedule_returns (include/marl/future.h).                               *)
(*                                                                         *)
(* WaitGroup, Event and the MARL_ASSERT macros live in headers that are    *)
(* only included by these two files; they are modelled from their          *)
(* documented contract.                                                    *)
(***************************************************************************)
EXTENDS Integers, Sequences, FiniteSets, TLC

(* ------------------------------ bounds --------------------------------- *)

\* number of tasks that join the TaskGroup
NumTasks == 3

\* how many times one task may park
MaxSuspend == 2

\* number of fibers calling the TaskGroup's wait operations
NumWaiters == 2

\* number of Future handles (each used by one fiber)
NumFutures == 2

\* number of distinct values of the result type T
NumValues == 2

\* how many times the producer may call setValue
MaxSets == 2

Tasks == 1..NumTasks

Waiters == 1..NumWaiters

Futures == 1..NumFutures

Values == 1..NumValues

\* the Promise handles: the variable `promise` (the local of schedule_returns)
\* and the lambda's capture `promise = std::move(promise)`
PromiseHandles == {"promise", "captured"}

\* an empty std::shared_ptr<PromiseShared<T>>
NoShared == "null"

\* the PromiseShared made by Promise::Promise()
TheShared == "shared"

\* no value read yet
NoValue == 0

\* an event made in Auto mode instead
EventModeAuto == "Auto"

\* the mode PromiseShared::PromiseShared() gives its event
EventMode == "Manual"

(* ------------------------------ state ---------------------------------- *)

VARIABLES
  fatal,                   \* "none", or the fatal condition that aborted the program
  completed,               \* TaskGroup::completed            (WaitGroup count)
  completed_or_suspended,  \* TaskGroup::completed_or_suspended (WaitGroup count)
  tpc,                     \* per task: position in its lifecycle calls
  nsusp,                   \* per task: number of taskAboutToBeSuspended calls made
  wpc,                     \* per waiter: position in a wait call
  ncall,                   \* how many calls of each lifecycle function have been made
  value,                   \* PromiseShared::value
  signalled,               \* PromiseShared::event (Manual mode): is it signalled
  pstate,                  \* per Promise handle: "unborn", "alive", "destroyed"
  pshared,                 \* per Promise handle: Promise::shared
  ppc,                     \* per Promise handle: position inside setValue
  parg,                    \* per Promise handle: the argument of the running setValue
  calls,                   \* the arguments of the setValue calls made so far
  fstate,                  \* per Future handle: "unborn", "idle", "get_wait", "polling", "destroyed"
  fshared,                 \* per Future handle: Future::shared
  fres,                    \* per Future handle: what its last get()/poll() returned
  fval,                    \* per Future handle: the value read through that result
  bound,                   \* is a Scheduler bound to the caller of schedule_returns
  srpc,                    \* position of the caller inside schedule_returns
  queue,                   \* the Tasks enqueued on the scheduler
  taskpc,                  \* position of the worker running the enqueued Task
  fret,                    \* the value the submitted callable f returns
  tres                     \* the worker's temporary holding std::invoke(f)

tgvars == <<completed, completed_or_suspended, tpc, nsusp, wpc, ncall>>

pfvars == <<value, signalled, pstate, pshared, ppc, parg, calls,
            fstate, fshared, fres, fval>>

srvars == <<bound, srpc, queue, taskpc, fret, tres>>

vars == <<fatal, tgvars, pfvars, srvars>>

(* --------------------- debug.h (documented contract) -------------------- *)

NoError == "none"

\* MARL_ASSERT(cond, msg): a failed assertion is fatal; yields the next value
\* of fatal
MARL_ASSERT(cond, msg) == IF cond THEN fatal ELSE msg

(* --------------------- event.h (documented contract) -------------------- *)

\* Event::isSignalled(): non-suspending poll of the flag
Event_isSignalled(ev) == ev

\* Event::signal(): the flag after the call (Manual mode: sticky)
Event_signal(ev) == TRUE

\* Event::wait() can return: the flag is observed signalled (Manual mode:
\* the wait does not reset it)
Event_wait(ev) == ev

\* Event::wait(): the flag once the wait has returned (an Auto event is reset
\* by the waiter it releases, a Manual event stays signalled)
Event_afterWait(mode, ev) == IF mode = "Auto" THEN FALSE ELSE ev

(* ------------------- waitgroup.h (documented contract) ------------------ *)

WaitGroupUnderflow == "marl::WaitGroup::done() called too many times"

\* WaitGroup::add(1)
WaitGroup_add(count) == count + 1

\* WaitGroup::done(): the count after the call
WaitGroup_done(count) == IF count > 0 THEN count - 1 ELSE count

\* WaitGroup::done(): the assertion guarding the decrement
WaitGroup_done_fatal(count) == MARL_ASSERT(count > 0, WaitGroupUnderflow)

\* WaitGroup::wait() can return: the count is observed to be zero
WaitGroup_wait(count) == count = 0

(* ------------------------------ TaskGroup ------------------------------- *)

TGInit ==
  /\ completed = 0
  /\ completed_or_suspended = 0
  /\ tpc = [t \in Tasks |-> "idle"]
  /\ nsusp = [t \in Tasks |-> 0]
  /\ wpc = [w \in Waiters |-> "idle"]
  /\ ncall = [started |-> 0, completed |-> 0, suspended |-> 0, resumed |-> 0]

\* taskStarted(), first statement: completed.add()
taskStarted_completed(t) ==
  /\ fatal = NoError
  /\ tpc[t] = "idle"
  /\ completed' = WaitGroup_add(completed)
  /\ tpc' = [tpc EXCEPT ![t] = "starting"]
  /\ UNCHANGED <<fatal, completed_or_suspended, nsusp, wpc>>
  /\ UNCHANGED <<ncall, pfvars, srvars>>

\* taskStarted() forgetting its second statement
taskStarted_completed_or_suspended_noAdd(t) ==
  /\ fatal = NoError
  /\ tpc[t] = "starting"
  /\ tpc' = [tpc EXCEPT ![t] = "running"]
  /\ ncall' = [ncall EXCEPT !.started = @ + 1]
  /\ UNCHANGED <<fatal, completed, completed_or_suspended, nsusp, wpc>>
  /\ UNCHANGED <<pfvars, srvars>>

\* taskStarted() whose second statement adds to completed again
taskStarted_completed_or_suspended_addsCompleted(t) ==
  /\ fatal = NoError
  /\ tpc[t] = "starting"
  /\ completed' = WaitGroup_add(completed)
  /\ tpc' = [tpc EXCEPT ![t] = "running"]
  /\ ncall' = [ncall EXCEPT !.started = @ + 1]
  /\ UNCHANGED <<fatal, completed_or_suspended, nsusp, wpc>>
  /\ UNCHANGED <<pfvars, srvars>>

\* taskStarted(), second statement: completed_or_suspended.add()
taskStarted_completed_or_suspended(t) ==
  /\ fatal = NoError
  /\ tpc[t] = "starting"
  /\ completed_or_suspended' = WaitGroup_add(completed_or_suspended)
  /\ tpc' = [tpc EXCEPT ![t] = "running"]
  /\ UNCHANGED <<fatal, completed, nsusp, wpc>>
  /\ ncall' = [ncall EXCEPT !.started = @ + 1]
  /\ UNCHANGED <<pfvars, srvars>>

\* taskAboutToBeCompleted() signalling the wrong WaitGroup
taskAboutToBeCompleted_wrongGroup(t) ==
  /\ fatal = NoError
  /\ tpc[t] = "running"
  /\ fatal' = WaitGroup_done_fatal(completed_or_suspended)
  /\ completed_or_suspended' = WaitGroup_done(completed_or_suspended)
  /\ tpc' = [tpc EXCEPT ![t] = "finished"]
  /\ UNCHANGED <<completed, nsusp, wpc>>
  /\ ncall' = [ncall EXCEPT !.completed = @ + 1]
  /\ UNCHANGED <<pfvars, srvars>>

\* taskAboutToBeCompleted(): completed.done()
taskAboutToBeCompleted(t) ==
  /\ fatal = NoError
  /\ tpc[t] = "running"
  /\ fatal' = WaitGroup_done_fatal(completed)
  /\ completed' = WaitGroup_done(completed)
  /\ tpc' = [tpc EXCEPT ![t] = "finished"]
  /\ UNCHANGED <<completed_or_suspended, nsusp, wpc>>
  /\ ncall' = [ncall EXCEPT !.completed = @ + 1]
  /\ UNCHANGED <<pfvars, srvars>>

\* taskAboutToBeSuspended() signalling both WaitGroups
taskAboutToBeSuspended_both(t) ==
  /\ fatal = NoError
  /\ tpc[t] = "running"
  /\ nsusp[t] < MaxSuspend
  /\ fatal' = WaitGroup_done_fatal(completed_or_suspended)
  /\ completed_or_suspended' = WaitGroup_done(completed_or_suspended)
  /\ completed' = WaitGroup_done(completed)
  /\ tpc' = [tpc EXCEPT ![t] = "parked"]
  /\ nsusp' = [nsusp EXCEPT ![t] = @ + 1]
  /\ ncall' = [ncall EXCEPT !.suspended = @ + 1]
  /\ UNCHANGED wpc
  /\ UNCHANGED <<pfvars, srvars>>

\* taskAboutToBeSuspended(): completed_or_suspended.done()
taskAboutToBeSuspended(t) ==
  /\ fatal = NoError
  /\ tpc[t] = "running"
  /\ nsusp[t] < MaxSuspend
  /\ fatal' = WaitGroup_done_fatal(completed_or_suspended)
  /\ completed_or_suspended' = WaitGroup_done(completed_or_suspended)
  /\ tpc' = [tpc EXCEPT ![t] = "parked"]
  /\ nsusp' = [nsusp EXCEPT ![t] = @ + 1]
  /\ UNCHANGED <<completed, wpc>>
  /\ ncall' = [ncall EXCEPT !.suspended = @ + 1]
  /\ UNCHANGED <<pfvars, srvars>>

\* taskAboutToBeResumed() forgetting to count the task again
taskAboutToBeResumed_noAdd(t) ==
  /\ fatal = NoError
  /\ tpc[t] = "parked"
  /\ tpc' = [tpc EXCEPT ![t] = "running"]
  /\ UNCHANGED <<fatal, completed, completed_or_suspended, nsusp, wpc>>
  /\ ncall' = [ncall EXCEPT !.resumed = @ + 1]
  /\ UNCHANGED <<pfvars, srvars>>

\* taskAboutToBeResumed(): completed_or_suspended.add()
taskAboutToBeResumed(t) ==
  /\ fatal = NoError
  /\ tpc[t] = "parked"
  /\ completed_or_suspended' = WaitGroup_add(completed_or_suspended)
  /\ tpc' = [tpc EXCEPT ![t] = "running"]
  /\ UNCHANGED <<fatal, completed, nsusp, wpc>>
  /\ ncall' = [ncall EXCEPT !.resumed = @ + 1]
  /\ UNCHANGED <<pfvars, srvars>>

\* a fiber enters waitForAllComplete()
waitForAllComplete_call(w) ==
  /\ fatal = NoError
  /\ wpc[w] \in {"idle", "doneC", "doneCOS"}
  /\ wpc' = [wpc EXCEPT ![w] = "waitC"]
  /\ UNCHANGED <<fatal, completed, completed_or_suspended, tpc, nsusp>>
  /\ UNCHANGED <<ncall, pfvars, srvars>>

\* waitForAllComplete(): completed.wait() returns
waitForAllComplete(w) ==
  /\ fatal = NoError
  /\ wpc[w] = "waitC"
  /\ WaitGroup_wait(completed)
  /\ wpc' = [wpc EXCEPT ![w] = "doneC"]
  /\ UNCHANGED <<fatal, completed, completed_or_suspended, tpc, nsusp>>
  /\ UNCHANGED <<ncall, pfvars, srvars>>

\* a fiber enters waitForAllCompleteOrSuspended()
waitForAllCompleteOrSuspended_call(w) ==
  /\ fatal = NoError
  /\ wpc[w] \in {"idle", "doneC", "doneCOS"}
  /\ wpc' = [wpc EXCEPT ![w] = "waitCOS"]
  /\ UNCHANGED <<fatal, completed, completed_or_suspended, tpc, nsusp>>
  /\ UNCHANGED <<ncall, pfvars, srvars>>

\* waitForAllCompleteOrSuspended(): completed_or_suspended.wait() returns
waitForAllCompleteOrSuspended(w) ==
  /\ fatal = NoError
  /\ wpc[w] = "waitCOS"
  /\ WaitGroup_wait(completed_or_suspended)
  /\ wpc' = [wpc EXCEPT ![w] = "doneCOS"]
  /\ UNCHANGED <<fatal, completed, completed_or_suspended, tpc, nsusp>>
  /\ UNCHANGED <<ncall, pfvars, srvars>>

\* the Promise / Future / schedule_returns state while only the TaskGroup runs
PFIdle ==
  /\ value = 1
  /\ signalled = FALSE
  /\ pstate = [p \in PromiseHandles |-> "unborn"]
  /\ pshared = [p \in PromiseHandles |-> NoShared]
  /\ ppc = [p \in PromiseHandles |-> "idle"]
  /\ parg = [p \in PromiseHandles |-> NoValue]
  /\ calls = << >>
  /\ fstate = [f \in Futures |-> "unborn"]
  /\ fshared = [f \in Futures |-> NoShared]
  /\ fres = [f \in Futures |-> "none"]
  /\ fval = [f \in Futures |-> NoValue]

SRIdle ==
  /\ bound = TRUE
  /\ srpc = "start"
  /\ queue = << >>
  /\ taskpc = "none"
  /\ fret = 1
  /\ tres = NoValue

InitTG ==
  /\ fatal = NoError
  /\ TGInit
  /\ PFIdle
  /\ SRIdle

NextTG ==
  \/ \E t \in Tasks : taskStarted_completed(t)
  \/ \E t \in Tasks : taskStarted_completed_or_suspended(t)
  \/ \E t \in Tasks : taskAboutToBeCompleted(t)
  \/ \E t \in Tasks : taskAboutToBeSuspended(t)
  \/ \E t \in Tasks : taskAboutToBeResumed(t)
  \/ \E w \in Waiters : waitForAllComplete_call(w)
  \/ \E w \in Waiters : waitForAllComplete(w)
  \/ \E w \in Waiters : waitForAllCompleteOrSuspended_call(w)
  \/ \E w \in Waiters : waitForAllCompleteOrSuspended(w)

SpecTG == InitTG /\ [][NextTG]_vars

(* ----------------- TaskGroup: calls made out of order ------------------ *)

\* how many lifecycle calls may have been made when a task makes a call out
\* of order
MaxCalls == 4

\* the number of lifecycle calls made so far
TotalCalls == ncall.started + ncall.completed + ncall.suspended + ncall.resumed

\* taskStarted() by a task that has started before, first statement
misuse_taskStarted_completed(t) ==
  /\ fatal = NoError
  /\ TotalCalls < MaxCalls
  /\ tpc[t] \in {"running", "parked", "finished", "misused"}
  /\ completed' = WaitGroup_add(completed)
  /\ tpc' = [tpc EXCEPT ![t] = "misused_starting"]
  /\ UNCHANGED <<fatal, completed_or_suspended, nsusp, wpc>>
  /\ UNCHANGED <<ncall, pfvars, srvars>>

\* taskStarted() by a task that has started before, second statement
misuse_taskStarted_completed_or_suspended(t) ==
  /\ fatal = NoError
  /\ tpc[t] = "misused_starting"
  /\ completed_or_suspended' = WaitGroup_add(completed_or_suspended)
  /\ tpc' = [tpc EXCEPT ![t] = "misused"]
  /\ ncall' = [ncall EXCEPT !.started = @ + 1]
  /\ UNCHANGED <<fatal, completed, nsusp, wpc>>
  /\ UNCHANGED <<pfvars, srvars>>

\* taskAboutToBeCompleted() by a task that is not running
misuse_taskAboutToBeCompleted(t) ==
  /\ fatal = NoError
  /\ TotalCalls < MaxCalls
  /\ tpc[t] \in {"idle", "parked", "finished", "misused"}
  /\ fatal' = WaitGroup_done_fatal(completed)
  /\ completed' = WaitGroup_done(completed)
  /\ tpc' = [tpc EXCEPT ![t] = "misused"]
  /\ ncall' = [ncall EXCEPT !.completed = @ + 1]
  /\ UNCHANGED <<completed_or_suspended, nsusp, wpc>>
  /\ UNCHANGED <<pfvars, srvars>>

\* taskAboutToBeSuspended() by a task that is not running
misuse_taskAboutToBeSuspended(t) ==
  /\ fatal = NoError
  /\ TotalCalls < MaxCalls
  /\ tpc[t] \in {"idle", "parked", "finished", "misused"}
  /\ fatal' = WaitGroup_done_fatal(completed_or_suspended)
  /\ completed_or_suspended' = WaitGroup_done(completed_or_suspended)
  /\ tpc' = [tpc EXCEPT ![t] = "misused"]
  /\ ncall' = [ncall EXCEPT !.suspended = @ + 1]
  /\ UNCHANGED <<completed, nsusp, wpc>>
  /\ UNCHANGED <<pfvars, srvars>>

\* taskAboutToBeResumed() that does not count the task again
misuse_taskAboutToBeResumed_noAdd(t) ==
  /\ fatal = NoError
  /\ TotalCalls < MaxCalls
  /\ tpc[t] \in {"idle", "running", "finished", "misused"}
  /\ tpc' = [tpc EXCEPT ![t] = "misused"]
  /\ ncall' = [ncall EXCEPT !.resumed = @ + 1]
  /\ UNCHANGED <<fatal, completed, completed_or_suspended, nsusp, wpc>>
  /\ UNCHANGED <<pfvars, srvars>>

\* taskAboutToBeResumed() by a task that is not parked
misuse_taskAboutToBeResumed(t) ==
  /\ fatal = NoError
  /\ TotalCalls < MaxCalls
  /\ tpc[t] \in {"idle", "running", "finished", "misused"}
  /\ completed_or_suspended' = WaitGroup_add(completed_or_suspended)
  /\ tpc' = [tpc EXCEPT ![t] = "misused"]
  /\ ncall' = [ncall EXCEPT !.resumed = @ + 1]
  /\ UNCHANGED <<fatal, completed, nsusp, wpc>>
  /\ UNCHANGED <<pfvars, srvars>>

\* tasks that make their calls in order, and tasks that do not
NextTGAny ==
  \/ \E t \in Tasks : taskStarted_completed(t)
  \/ \E t \in Tasks : taskStarted_completed_or_suspended(t)
  \/ \E t \in Tasks : taskAboutToBeCompleted(t)
  \/ \E t \in Tasks : taskAboutToBeSuspended(t)
  \/ \E t \in Tasks : taskAboutToBeResumed(t)
  \/ \E t \in Tasks : misuse_taskStarted_completed(t)
  \/ \E t \in Tasks : misuse_taskStarted_completed_or_suspended(t)
  \/ \E t \in Tasks : misuse_taskAboutToBeCompleted(t)
  \/ \E t \in Tasks : misuse_taskAboutToBeSuspended(t)
  \/ \E t \in Tasks : misuse_taskAboutToBeResumed(t)

SpecTGAny == InitTG /\ [][NextTGAny]_vars

(* ------------------------- TaskGroup: vocabulary ------------------------ *)

\* tasks that are inside or past taskStarted() and have not completed
Unfinished == {t \in Tasks : tpc[t] \in {"starting", "running", "parked"}}

\* tasks for which taskStarted() has returned and that are neither parked
\* nor finished
Running == {t \in Tasks : tpc[t] = "running"}

Parked == {t \in Tasks : tpc[t] = "parked"}

Finished == {t \in Tasks : tpc[t] = "finished"}

(* -------------------------- TaskGroup: claims --------------------------- *)

\* C1: whenever every task that has started is completed or parked (no task
\* is running or inside taskStarted), waitForAllCompleteOrSuspended() can
\* return, also when tasks have completed and none is parked.
C1_UnblocksWhenAllCompleteOrParked ==
  (Running = {} /\ \A t \in Tasks : tpc[t] # "starting")
    => WaitGroup_wait(completed_or_suspended)

\* C2: the count of completed_or_suspended equals the number of tasks that
\* are currently neither parked nor finished.
C2_CountIsRunningTasks ==
  completed_or_suspended = Cardinality(Running)

\* C3: the count of completed equals the number of tasks that have called
\* taskStarted but not yet taskAboutToBeCompleted, and a waitForAllComplete()
\* call can return exactly when no such task exists.
C3_CompletedCountsUnfinished ==
  /\ completed = Cardinality(Unfinished)
  /\ \A w \in Waiters :
       wpc[w] = "waitC" => (ENABLED waitForAllComplete(w) <=> Unfinished = {})

\* C3 witness: every task has completed, some of them after parking, and a
\* waitForAllComplete() call has returned.
C3_Witness ==
  /\ Finished = Tasks
  /\ \E t \in Tasks : nsusp[t] > 0
  /\ \E w \in Waiters : wpc[w] = "doneC"

\* C10: while some started task is running (neither parked nor finished), no
\* waitForAllCompleteOrSuspended() call can return; in particular the wait
\* blocks again once a parked task has called taskAboutToBeResumed.
C10_BlockedWhileRunning ==
  \A w \in Waiters :
    (wpc[w] = "waitCOS" /\ Running # {})
      => ~ENABLED waitForAllCompleteOrSuspended(w)

\* C10 witness: no task has finished, one waiter returned from
\* waitForAllCompleteOrSuspended(), a task that had parked is running again
\* and another waiter is inside waitForAllCompleteOrSuspended().
C10_Witness ==
  /\ Finished = {}
  /\ \E t \in Tasks : tpc[t] = "running" /\ nsusp[t] > 0
  /\ \E w \in Waiters : wpc[w] = "doneCOS"
  /\ \E w \in Waiters : wpc[w] = "waitCOS"

\* C15: with every task making its calls in order, no done() is invoked on
\* a WaitGroup whose count is zero: the underflow error is never raised, and
\* wherever a task may call taskAboutToBeCompleted or taskAboutToBeSuspended
\* both counts are above zero.
C15_NoUnderflow ==
  /\ fatal # WaitGroupUnderflow
  /\ Running # {} => (completed > 0 /\ completed_or_suspended > 0)

\* C15 witness: done() has been invoked on both WaitGroups, no error was
\* raised, and completed is back at zero.
C15_Witness ==
  /\ fatal = NoError
  /\ ncall.suspended > 0
  /\ ncall.completed = NumTasks
  /\ completed = 0

\* C16: each lifecycle call changes exactly the counts it names: taskStarted
\* adds one to completed (first statement) and one to completed_or_suspended
\* (second statement); taskAboutToBeCompleted takes one from completed only;
\* taskAboutToBeSuspended takes one from completed_or_suspended only;
\* taskAboutToBeResumed adds one to completed_or_suspended only.
C16_FrameEffects ==
  [][\A t \in Tasks :
       /\ (tpc[t] = "idle" /\ tpc'[t] = "starting") =>
            /\ completed' = completed + 1
            /\ completed_or_suspended' = completed_or_suspended
       /\ (tpc[t] = "starting" /\ tpc'[t] = "running") =>
            /\ completed' = completed
            /\ completed_or_suspended' = completed_or_suspended + 1
       /\ (tpc[t] = "running" /\ tpc'[t] = "finished") =>
            /\ completed' = completed - 1
            /\ completed_or_suspended' = completed_or_suspended
       /\ (tpc[t] = "running" /\ tpc'[t] = "parked") =>
            /\ completed' = completed
            /\ completed_or_suspended' = completed_or_suspended - 1
       /\ (tpc[t] = "parked" /\ tpc'[t] = "running") =>
            /\ completed' = completed
            /\ completed_or_suspended' = completed_or_suspended + 1]_vars

\* C16 witness: each of the four lifecycle functions has been called while
\* other tasks were counted.
C16_Witness ==
  /\ ncall.started > 1
  /\ ncall.completed > 0
  /\ ncall.suspended > 0
  /\ ncall.resumed > 0
  /\ Running # {}

\* tasks between the two statements of taskStarted()
Starting == {t \in Tasks : tpc[t] = "starting"}

\* C20 as stated: taskStarted is atomic for waiters. While a task that is
\* counted by completed is unparked and unfinished (between the two
\* increments included), waitForAllCompleteOrSuspended() cannot return, and
\* completed_or_suspended counts every such task.
C20_StartedAtomically ==
  /\ \A w \in Waiters :
       (wpc[w] = "waitCOS" /\ (Starting \cup Running) # {})
         => ~ENABLED waitForAllCompleteOrSuspended(w)
  /\ Cardinality(Starting \cup Running) <= completed_or_suspended

\* C20: between the two increments of taskStarted() the task is counted by
\* completed only; every task counted by completed that is neither between
\* the increments nor parked is also counted by completed_or_suspended.
C20_CountedOnceStarted ==
  /\ Cardinality(Starting) <= completed
  /\ completed - Cardinality(Starting) - Cardinality(Parked)
       <= completed_or_suspended

\* C20 witness: a task is between the two increments, completed counts it,
\* completed_or_suspended is zero and a waiter blocked in
\* waitForAllCompleteOrSuspended() can return; another task has been through
\* taskStarted() entirely.
C20_Witness ==
  /\ Starting # {}
  /\ completed > 0
  /\ completed_or_suspended = 0
  /\ ncall.started > 0
  /\ \E w \in Waiters :
       wpc[w] = "waitCOS" /\ ENABLED waitForAllCompleteOrSuspended(w)

\* tasks that have made a call out of order
Misused == {t \in Tasks : tpc[t] \in {"misused", "misused_starting"}}

\* some task is between the two statements of taskStarted()
MidStart == \E t \in Tasks : tpc[t] \in {"starting", "misused_starting"}

\* the calls made so far cancel out in both WaitGroups
Balanced ==
  /\ ncall.started = ncall.completed
  /\ ncall.started + ncall.resumed = ncall.suspended

\* C17 as stated: once some task has made a call out of order, at the end of
\* every call sequence a wait of the group is blocked (a count is above
\* zero) or a done() on a zero count has raised the underflow error.
C17_MisuseAlwaysDetected ==
  (Misused # {} /\ ~MidStart) =>
    \/ fatal = WaitGroupUnderflow
    \/ ~WaitGroup_wait(completed)
    \/ ~WaitGroup_wait(completed_or_suspended)

\* C17 amended: once some task has made a call out of order, at the end of
\* every call sequence a wait of the group is blocked, or the underflow error
\* has been raised, or the calls made cancel out (as many taskStarted as
\* taskAboutToBeCompleted calls, and as many taskAboutToBeSuspended calls as
\* taskStarted plus taskAboutToBeResumed calls).
C17_MisuseDetectedUnlessBalanced ==
  (Misused # {} /\ ~MidStart) =>
    \/ fatal = WaitGroupUnderflow
    \/ ~WaitGroup_wait(completed)
    \/ ~WaitGroup_wait(completed_or_suspended)
    \/ Balanced

\* C17 witness: without any taskStarted, taskAboutToBeResumed and then
\* taskAboutToBeSuspended were called: both counts are zero and no error
\* was raised.
C17_Witness ==
  /\ Misused # {}
  /\ ~MidStart
  /\ fatal = NoError
  /\ completed = 0
  /\ completed_or_suspended = 0
  /\ ncall = [started |-> 0, completed |-> 0, suspended |-> 1, resumed |-> 1]
  /\ Balanced

(* ---------------------------- Promise / Future -------------------------- *)

AlreadySignaled == "Promise already signaled."

BrokenPromise == "Promise destroyed without being signaled."

\* a read through a null shared pointer that faults
NullDeref == "null pointer dereference"

\* what a dereference of a null shared pointer can do: fault, or read
\* whatever the address holds
NullDerefOutcomes == {"fault", "garbage"}

\* Promise::Promise(): a fresh PromiseShared, event unsignalled (Manual), value
\* default-initialised
Promise_ctor(p) ==
  /\ pstate' = [pstate EXCEPT ![p] = "alive"]
  /\ pshared' = [pshared EXCEPT ![p] = TheShared]
  /\ value' \in Values
  /\ signalled' = FALSE

\* a Promise move that leaves the source holding the shared pointer
Promise_move_copy(src, dst) ==
  /\ pstate' = [pstate EXCEPT ![dst] = "alive"]
  /\ pshared' = [pshared EXCEPT ![dst] = pshared[src]]

\* Promise(Promise&&) = default: the shared pointer moves from src to dst
Promise_move(src, dst) ==
  /\ pstate' = [pstate EXCEPT ![dst] = "alive"]
  /\ pshared' = [pshared EXCEPT ![dst] = pshared[src], ![src] = NoShared]

\* Promise::getFuture(): Future<T>(shared)
Promise_getFuture(p, f) ==
  /\ fatal = NoError
  /\ pstate[p] = "alive"
  /\ ppc[p] = "idle"
  /\ fstate[f] = "unborn"
  /\ fstate' = [fstate EXCEPT ![f] = "idle"]
  /\ fshared' = [fshared EXCEPT ![f] = pshared[p]]
  /\ UNCHANGED <<fatal, value, signalled, pstate, pshared, ppc, parg, calls,
                 fres, fval>>
  /\ UNCHANGED <<tgvars, srvars>>

\* Promise::setValue(v) storing the value before it checks the event
Promise_setValue_assert_storeFirst(p, v) ==
  /\ fatal = NoError
  /\ pstate[p] = "alive"
  /\ pshared[p] = TheShared
  /\ ppc[p] = "idle"
  /\ Len(calls) < MaxSets
  /\ calls' = Append(calls, v)
  /\ value' = v
  /\ fatal' = MARL_ASSERT(~Event_isSignalled(signalled), AlreadySignaled)
  /\ IF ~Event_isSignalled(signalled)
       THEN /\ ppc' = [ppc EXCEPT ![p] = "signal"]
            /\ parg' = [parg EXCEPT ![p] = v]
       ELSE UNCHANGED <<ppc, parg>>
  /\ UNCHANGED <<signalled, pstate, pshared, fstate, fshared, fres, fval>>
  /\ UNCHANGED <<tgvars, srvars>>

\* Promise::setValue(v) without the "already signaled" assertion
Promise_setValue_assert_noAssert(p, v) ==
  /\ fatal = NoError
  /\ pstate[p] = "alive"
  /\ pshared[p] = TheShared
  /\ ppc[p] = "idle"
  /\ Len(calls) < MaxSets
  /\ calls' = Append(calls, v)
  /\ ppc' = [ppc EXCEPT ![p] = "store"]
  /\ parg' = [parg EXCEPT ![p] = v]
  /\ UNCHANGED <<fatal, value, signalled, pstate, pshared,
                 fstate, fshared, fres, fval>>
  /\ UNCHANGED <<tgvars, srvars>>

\* Promise::setValue(v), first statement:
\* MARL_ASSERT(!shared->event.isSignalled(), "Promise already signaled.")
Promise_setValue_assert(p, v) ==
  /\ fatal = NoError
  /\ pstate[p] = "alive"
  /\ pshared[p] = TheShared
  /\ ppc[p] = "idle"
  /\ Len(calls) < MaxSets
  /\ calls' = Append(calls, v)
  /\ fatal' = MARL_ASSERT(~Event_isSignalled(signalled), AlreadySignaled)
  /\ IF ~Event_isSignalled(signalled)
       THEN /\ ppc' = [ppc EXCEPT ![p] = "store"]
            /\ parg' = [parg EXCEPT ![p] = v]
       ELSE UNCHANGED <<ppc, parg>>
  /\ UNCHANGED <<value, signalled, pstate, pshared, fstate, fshared, fres, fval>>
  /\ UNCHANGED <<tgvars, srvars>>

\* Promise::setValue(v) signalling the event where it should store the value
Promise_setValue_store_signalFirst(p) ==
  /\ fatal = NoError
  /\ ppc[p] = "store"
  /\ signalled' = Event_signal(signalled)
  /\ ppc' = [ppc EXCEPT ![p] = "signal"]
  /\ UNCHANGED <<fatal, value, pstate, pshared, parg, calls,
                 fstate, fshared, fres, fval>>
  /\ UNCHANGED <<tgvars, srvars>>

\* Promise::setValue(v), second statement: shared->value = std::move(value)
Promise_setValue_store(p) ==
  /\ fatal = NoError
  /\ ppc[p] = "store"
  /\ value' = parg[p]
  /\ ppc' = [ppc EXCEPT ![p] = "signal"]
  /\ UNCHANGED <<fatal, signalled, pstate, pshared, parg, calls,
                 fstate, fshared, fres, fval>>
  /\ UNCHANGED <<tgvars, srvars>>

\* Promise::setValue(v), third statement: shared->event.signal()
Promise_setValue_signal(p) ==
  /\ fatal = NoError
  /\ ppc[p] = "signal"
  /\ signalled' = Event_signal(signalled)
  /\ ppc' = [ppc EXCEPT ![p] = "idle"]
  /\ UNCHANGED <<fatal, value, pstate, pshared, parg, calls,
                 fstate, fshared, fres, fval>>
  /\ UNCHANGED <<tgvars, srvars>>

\* Promise::~Promise() without the broken-promise assertion
Promise_dtor_noAssert(p) ==
  /\ fatal = NoError
  /\ pstate[p] = "alive"
  /\ ppc[p] = "idle"
  /\ pstate' = [pstate EXCEPT ![p] = "destroyed"]
  /\ UNCHANGED <<fatal, value, signalled, pshared, ppc, parg, calls,
                 fstate, fshared, fres, fval>>
  /\ UNCHANGED <<tgvars, srvars>>

\* Promise::~Promise() tearing down the PromiseShared with the Promise
Promise_dtor_resets(p) ==
  /\ fatal = NoError
  /\ pstate[p] = "alive"
  /\ ppc[p] = "idle"
  /\ fatal' = MARL_ASSERT(Event_isSignalled(signalled), BrokenPromise)
  /\ pstate' = [pstate EXCEPT ![p] =
                   IF Event_isSignalled(signalled) THEN "destroyed" ELSE @]
  /\ signalled' = FALSE
  /\ value' = NoValue
  /\ UNCHANGED <<pshared, ppc, parg, calls, fstate, fshared, fres, fval>>
  /\ UNCHANGED <<tgvars, srvars>>

\* Promise::~Promise(): MARL_ASSERT(shared->event.isSignalled(), ...); on a
\* handle whose shared pointer is empty the assertion reads through null
Promise_dtor(p) ==
  /\ fatal = NoError
  /\ pstate[p] = "alive"
  /\ ppc[p] = "idle"
  /\ IF pshared[p] = TheShared
       THEN /\ fatal' = MARL_ASSERT(Event_isSignalled(signalled), BrokenPromise)
            /\ pstate' = [pstate EXCEPT ![p] =
                             IF Event_isSignalled(signalled) THEN "destroyed" ELSE @]
       ELSE \E o \in NullDerefOutcomes :
              IF o = "fault"
                THEN fatal' = NullDeref /\ UNCHANGED pstate
                ELSE \E garbage \in BOOLEAN :
                       /\ fatal' = MARL_ASSERT(garbage, BrokenPromise)
                       /\ pstate' = [pstate EXCEPT ![p] =
                                        IF garbage THEN "destroyed" ELSE @]
  /\ UNCHANGED <<value, signalled, pshared, ppc, parg, calls,
                 fstate, fshared, fres, fval>>
  /\ UNCHANGED <<tgvars, srvars>>

\* a fiber enters Future::get()
Future_get_call(f) ==
  /\ fatal = NoError
  /\ fstate[f] = "idle"
  /\ fstate' = [fstate EXCEPT ![f] = "get_wait"]
  /\ UNCHANGED <<fatal, value, signalled, pstate, pshared, ppc, parg, calls,
                 fshared, fres, fval>>
  /\ UNCHANGED <<tgvars, srvars>>

\* Future::get() returning the reference without waiting for the event
Future_get_noWait(f) ==
  /\ fatal = NoError
  /\ fstate[f] = "get_wait"
  /\ fstate' = [fstate EXCEPT ![f] = "idle"]
  /\ fres' = [fres EXCEPT ![f] = "ref"]
  /\ fval' = [fval EXCEPT ![f] = NoValue]
  /\ UNCHANGED <<fatal, value, signalled, pstate, pshared, ppc, parg, calls,
                 fshared>>
  /\ UNCHANGED <<tgvars, srvars>>

\* Future::get() clearing the event once its wait has returned
Future_get_clears(f) ==
  /\ fatal = NoError
  /\ fstate[f] = "get_wait"
  /\ fshared[f] = TheShared
  /\ Event_wait(signalled)
  /\ signalled' = FALSE
  /\ fstate' = [fstate EXCEPT ![f] = "idle"]
  /\ fres' = [fres EXCEPT ![f] = "ref"]
  /\ fval' = [fval EXCEPT ![f] = NoValue]
  /\ UNCHANGED <<fatal, value, pstate, pshared, ppc, parg, calls, fshared>>
  /\ UNCHANGED <<tgvars, srvars>>

\* Future::get(): shared->event.wait() returns, then return shared->value
\* (a reference); through an empty shared pointer the call reads through null
Future_get(f) ==
  /\ fatal = NoError
  /\ fstate[f] = "get_wait"
  /\ IF fshared[f] = TheShared
       THEN /\ Event_wait(signalled)
            /\ signalled' = Event_afterWait(EventMode, signalled)
            /\ fstate' = [fstate EXCEPT ![f] = "idle"]
            /\ fres' = [fres EXCEPT ![f] = "ref"]
            /\ UNCHANGED fatal
       ELSE \E o \in NullDerefOutcomes :
              IF o = "fault"
                THEN fatal' = NullDeref /\ UNCHANGED <<fstate, fres, signalled>>
                ELSE /\ fstate' = [fstate EXCEPT ![f] = "idle"]
                     /\ fres' = [fres EXCEPT ![f] = "ref"]
                     /\ UNCHANGED <<fatal, signalled>>
  /\ fval' = [fval EXCEPT ![f] = NoValue]
  /\ UNCHANGED <<value, pstate, pshared, ppc, parg, calls, fshared>>
  /\ UNCHANGED <<tgvars, srvars>>

\* a fiber enters Future::poll()
Future_poll_call(f) ==
  /\ fatal = NoError
  /\ fstate[f] = "idle"
  /\ fstate' = [fstate EXCEPT ![f] = "polling"]
  /\ UNCHANGED <<fatal, value, signalled, pstate, pshared, ppc, parg, calls,
                 fshared, fres, fval>>
  /\ UNCHANGED <<tgvars, srvars>>

\* Future::poll() returning the address without testing the event
Future_poll_noCheck(f) ==
  /\ fatal = NoError
  /\ fstate[f] = "polling"
  /\ fstate' = [fstate EXCEPT ![f] = "idle"]
  /\ fres' = [fres EXCEPT ![f] = "ptr"]
  /\ fval' = [fval EXCEPT ![f] = NoValue]
  /\ UNCHANGED <<fatal, value, signalled, pstate, pshared, ppc, parg, calls,
                 fshared>>
  /\ UNCHANGED <<tgvars, srvars>>

\* Future::poll(): &shared->value if shared->event.isSignalled(), else nullptr
Future_poll(f) ==
  /\ fatal = NoError
  /\ fstate[f] = "polling"
  /\ IF fshared[f] = TheShared
       THEN /\ fres' = [fres EXCEPT ![f] =
                           IF Event_isSignalled(signalled) THEN "ptr" ELSE "nullptr"]
            /\ fstate' = [fstate EXCEPT ![f] = "idle"]
            /\ UNCHANGED fatal
       ELSE \E o \in NullDerefOutcomes :
              IF o = "fault"
                THEN fatal' = NullDeref /\ UNCHANGED <<fstate, fres>>
                ELSE \E garbage \in BOOLEAN :
                       /\ fres' = [fres EXCEPT ![f] =
                                      IF garbage THEN "ptr" ELSE "nullptr"]
                       /\ fstate' = [fstate EXCEPT ![f] = "idle"]
                       /\ UNCHANGED fatal
  /\ fval' = [fval EXCEPT ![f] = NoValue]
  /\ UNCHANGED <<value, signalled, pstate, pshared, ppc, parg, calls, fshared>>
  /\ UNCHANGED <<tgvars, srvars>>

\* the caller reads the T behind the T& of get() or the T* of poll()
Future_read(f) ==
  /\ fatal = NoError
  /\ fstate[f] = "idle"
  /\ fres[f] \in {"ref", "ptr"}
  /\ fval[f] = NoValue
  /\ IF fshared[f] = TheShared
       THEN fval' = [fval EXCEPT ![f] = value] /\ UNCHANGED fatal
       ELSE \E o \in NullDerefOutcomes :
              IF o = "fault"
                THEN fatal' = NullDeref /\ UNCHANGED fval
                ELSE \E garbage \in Values :
                       fval' = [fval EXCEPT ![f] = garbage] /\ UNCHANGED fatal
  /\ UNCHANGED <<value, signalled, pstate, pshared, ppc, parg, calls,
                 fstate, fshared, fres>>
  /\ UNCHANGED <<tgvars, srvars>>

\* ~Future(): the handle drops its share of the PromiseShared
Future_dtor(f) ==
  /\ fatal = NoError
  /\ fstate[f] = "idle"
  /\ fstate' = [fstate EXCEPT ![f] = "destroyed"]
  /\ fres' = [fres EXCEPT ![f] = "none"]
  /\ fval' = [fval EXCEPT ![f] = NoValue]
  /\ UNCHANGED <<fatal, value, signalled, pstate, pshared, ppc, parg, calls,
                 fshared>>
  /\ UNCHANGED <<tgvars, srvars>>

\* a Promise constructed by Promise::Promise(), no Future derived yet
InitPF ==
  /\ fatal = NoError
  /\ value \in Values
  /\ signalled = FALSE
  /\ pstate = [p \in PromiseHandles |-> IF p = "promise" THEN "alive" ELSE "unborn"]
  /\ pshared = [p \in PromiseHandles |-> IF p = "promise" THEN TheShared ELSE NoShared]
  /\ ppc = [p \in PromiseHandles |-> "idle"]
  /\ parg = [p \in PromiseHandles |-> NoValue]
  /\ calls = << >>
  /\ fstate = [f \in Futures |-> "unborn"]
  /\ fshared = [f \in Futures |-> NoShared]
  /\ fres = [f \in Futures |-> "none"]
  /\ fval = [f \in Futures |-> NoValue]
  /\ TGInit
  /\ SRIdle

NextPF ==
  \/ \E f \in Futures : Promise_getFuture("promise", f)
  \/ \E v \in Values : Promise_setValue_assert("promise", v)
  \/ Promise_setValue_store("promise")
  \/ Promise_setValue_signal("promise")
  \/ Promise_dtor("promise")
  \/ \E f \in Futures : Future_get_call(f)
  \/ \E f \in Futures : Future_get(f)
  \/ \E f \in Futures : Future_poll_call(f)
  \/ \E f \in Futures : Future_poll(f)
  \/ \E f \in Futures : Future_read(f)
  \/ \E f \in Futures : Future_dtor(f)

SpecPF == InitPF /\ [][NextPF]_vars

(* ------------------------ Promise / Future: claims ---------------------- *)

\* a setValue call has run to its end: the shared state is Set
SetCompleted == Len(calls) > 0 /\ \A p \in PromiseHandles : ppc[p] = "idle"

\* the Future handles that hold the PromiseShared and have been created
Derived == {f \in Futures : fshared[f] = TheShared /\ fstate[f] # "unborn"}

\* C5: a get() on a Future derived from the Promise has returned only after
\* setValue(v) signalled the event, and what it returned refers to v.
C5_GetReturnsAfterSignal ==
  \A f \in Derived :
    fres[f] = "ref" =>
      /\ signalled
      /\ SetCompleted
      /\ value = calls[1]
      /\ fval[f] # NoValue => fval[f] = calls[1]

\* C5 witness: every fiber has returned from get() on its own derived Future
\* and one of them has read the value set.
C5_Witness ==
  /\ \A f \in Futures : f \in Derived /\ fres[f] = "ref"
  /\ \E f \in Futures : fval[f] = calls[1]

\* C6: a poll() that has been entered can always take its step (it never
\* suspends), and the step returns nullptr when no setValue has completed
\* (also between the store and the signal) and the address of the value set
\* once a setValue has completed.
C6_PollNullUntilSet ==
  [][\A f \in Derived :
       (fstate[f] = "polling" /\ fatal = NoError) =>
         /\ ENABLED Future_poll(f)
         /\ fstate'[f] = "idle" =>
              IF SetCompleted
                THEN fres'[f] = "ptr" /\ value' = calls[1]
                ELSE fres'[f] = "nullptr"]_vars

\* C6 witness: the value is stored but the event not yet signalled, and a
\* poll() has just returned nullptr.
C6_Witness ==
  /\ ppc["promise"] = "signal"
  /\ \E f \in Derived : fstate[f] = "idle" /\ fres[f] = "nullptr"
  /\ \E f \in Derived : fstate[f] = "polling"

\* C7: a second setValue is fatal ("Promise already signaled.") and leaves
\* the stored value the one of the first setValue, which is what Futures read.
C7_SecondSetValueFatal ==
  /\ Len(calls) >= 2 =>
       /\ fatal = AlreadySignaled
       /\ signalled
       /\ value = calls[1]
  /\ \A f \in Derived : fval[f] # NoValue => fval[f] = calls[1]

\* C7 witness: the second setValue, called with a different value, has hit
\* the assertion and a Future has read the first value.
C7_Witness ==
  /\ Len(calls) = 2
  /\ calls[2] # calls[1]
  /\ fatal = AlreadySignaled
  /\ \E f \in Derived : fval[f] = calls[1]

\* C8: a Promise (holding its shared state) that is destroyed without any
\* setValue hits the broken-promise assertion, whatever Futures exist or
\* have been destroyed; a Promise destroyed after setValue raises no error.
C8_BrokenPromiseDetected ==
  /\ pstate["promise"] = "destroyed" => (Len(calls) > 0 /\ fatal = NoError)
  /\ fatal = BrokenPromise => Len(calls) = 0

\* C8 witness: the Promise was destroyed unset, after one derived Future
\* had been destroyed and while another still exists.
C8_Witness ==
  /\ fatal = BrokenPromise
  /\ \E f \in Derived : fstate[f] = "destroyed"
  /\ \E f \in Derived : fstate[f] \in {"idle", "get_wait", "polling"}

\* C11: whatever derived Futures have read through get() or poll(), they
\* all read the same value, the one of the first setValue; and once a
\* setValue has completed every result handed out refers to that value.
C11_AllObserveSameValue ==
  /\ \A f, g \in Derived :
       (fval[f] # NoValue /\ fval[g] # NoValue) =>
         (fval[f] = fval[g] /\ fval[f] = calls[1])
  /\ SetCompleted =>
       \A f \in Derived : fres[f] \in {"ref", "ptr"} => value = calls[1]

\* C11 witness: after setValue completed, one Future read the value
\* through get() and another through poll().
C11_Witness ==
  /\ SetCompleted
  /\ \E f, g \in Derived :
       /\ f # g
       /\ fres[f] = "ref" /\ fval[f] = calls[1]
       /\ fres[g] = "ptr" /\ fval[g] = calls[1]

\* C12: the event being signalled implies the value has been written; the
\* value is written only by the store of the first setValue, while the event
\* is not yet signalled; and a Future reads the value only in a state where
\* the event is signalled.
C12_SignalledImpliesWritten ==
  [][/\ signalled' => (Len(calls') >= 1 /\ value' = calls'[1])
     /\ \A p \in PromiseHandles :
          (ppc[p] = "store" /\ ppc'[p] = "signal") =>
            (~signalled /\ Len(calls) = 1 /\ value' = calls[1])
     /\ value' # value => \E p \in PromiseHandles : ppc[p] = "store"
     /\ \A f \in Derived :
          (fval'[f] # fval[f] /\ fval'[f] # NoValue) => signalled]_vars

\* C12 witness: the value of the first setValue is stored, the event is not
\* yet signalled, and a fiber inside get() is held back.
C12_Witness ==
  /\ ppc["promise"] = "signal"
  /\ ~signalled
  /\ Len(calls) = 1
  /\ value = calls[1]
  /\ \E f \in Derived : fstate[f] = "get_wait"

\* the shared state has been seen Set: the event is signalled or a poll()
\* result still held by a Future is non-null
SeenSet == signalled \/ \E g \in Derived : fres[g] = "ptr"

\* C13: no step of the Promise or of a Future resets the event; once the
\* state has been seen Set, every poll() that returns hands out the address
\* and every get() that has been entered can return at once.
C13_OneWaySet ==
  [][/\ signalled => signalled'
     /\ SeenSet =>
          \A f \in Derived :
            /\ (fstate[f] = "polling" /\ fstate'[f] = "idle") => fres'[f] = "ptr"
            /\ (fstate[f] = "get_wait" /\ fatal = NoError) => ENABLED Future_get(f)]_vars

\* C13 witness: the Promise has been destroyed and one Future dropped, and
\* the remaining Future has polled non-null and read the value.
C13_Witness ==
  /\ pstate["promise"] = "destroyed"
  /\ \E f \in Derived : fstate[f] = "destroyed"
  /\ \E f \in Derived : fstate[f] = "idle" /\ fres[f] = "ptr" /\ fval[f] = calls[1]

\* SpecPF with the scheduling the fiber runtime gives: the producer runs
\* setValue through its statements, and a fiber whose wait can return is
\* resumed.
FairSpecPF ==
  /\ SpecPF
  /\ WF_vars(Promise_setValue_store("promise"))
  /\ WF_vars(Promise_setValue_signal("promise"))
  /\ \A f \in Futures : WF_vars(Future_get(f))

\* C14: every fiber that is suspended in get() on a derived Future when
\* setValue is about to signal eventually returns from get() (unless the
\* program is aborted by a fatal error first): one signal releases all.
C14_SetValueReleasesAll ==
  \A f \in Futures :
    (fstate[f] = "get_wait" /\ fshared[f] = TheShared /\ ppc["promise"] = "signal")
      ~> ((fstate[f] = "idle" /\ fres[f] = "ref") \/ fatal # NoError)

\* C14 witness: after the one setValue, one fiber has returned from get()
\* and the other, suspended in get() as well, is about to.
C14_Witness ==
  /\ SetCompleted
  /\ Len(calls) = 1
  /\ fatal = NoError
  /\ \E f, g \in Derived :
       /\ fstate[f] = "idle" /\ fres[f] = "ref"
       /\ fstate[g] = "get_wait"

(* ---------------------------- schedule_returns -------------------------- *)

NoBoundScheduler == "marl::schedule_returns requires a bound scheduler"

\* MARL_ASSERT_HAS_BOUND_SCHEDULER(feature): fatal without a bound scheduler
MARL_ASSERT_HAS_BOUND_SCHEDULER(b) == MARL_ASSERT(b, NoBoundScheduler)

\* the Future handle schedule_returns hands to its caller
RetF == 1

\* schedule_returns has returned to its caller (its local Promise is gone)
Returned == srpc = "tail" /\ pstate["promise"] = "destroyed"

\* schedule_returns() going on without looking for a bound scheduler
schedule_returns_assert_noCheck ==
  /\ fatal = NoError
  /\ srpc = "start"
  /\ srpc' = "promise"
  /\ UNCHANGED <<fatal, bound, queue, taskpc, fret, tres>>
  /\ UNCHANGED <<tgvars, pfvars>>

\* schedule_returns(): MARL_ASSERT_HAS_BOUND_SCHEDULER("marl::schedule_returns");
\* auto scheduler = Scheduler::get()
schedule_returns_assert ==
  /\ fatal = NoError
  /\ srpc = "start"
  /\ fatal' = MARL_ASSERT_HAS_BOUND_SCHEDULER(bound)
  /\ srpc' = IF bound THEN "promise" ELSE srpc
  /\ UNCHANGED <<bound, queue, taskpc, fret, tres>>
  /\ UNCHANGED <<tgvars, pfvars>>

\* schedule_returns(): Promise<...> promise;
schedule_returns_promise ==
  /\ fatal = NoError
  /\ srpc = "promise"
  /\ Promise_ctor("promise")
  /\ srpc' = "enqueue"
  /\ UNCHANGED <<fatal, ppc, parg, calls, fstate, fshared, fres, fval>>
  /\ UNCHANGED <<bound, queue, taskpc, fret, tres>>
  /\ UNCHANGED tgvars

\* schedule_returns(): scheduler->enqueue(Task([promise = std::move(promise),
\* f = ...]() mutable {...}, std::move(attributes)))
schedule_returns_enqueue ==
  /\ fatal = NoError
  /\ srpc = "enqueue"
  /\ Promise_move("promise", "captured")
  /\ queue' = Append(queue, [promise |-> "captured", f |-> fret])
  /\ srpc' = "tail"
  /\ UNCHANGED <<fatal, value, signalled, ppc, parg, calls,
                 fstate, fshared, fres, fval>>
  /\ UNCHANGED <<bound, taskpc, fret, tres>>
  /\ UNCHANGED tgvars

\* schedule_returns(): return promise.getFuture() -- the return value is made
schedule_returns_getFuture ==
  /\ srpc = "tail"
  /\ Promise_getFuture("promise", RetF)

\* schedule_returns(): the local `promise` goes out of scope
schedule_returns_return ==
  /\ srpc = "tail"
  /\ fstate[RetF] # "unborn"
  /\ Promise_dtor("promise")

\* a worker takes the Task from the queue and runs the lambda up to
\* std::invoke(f)
Task_invoke ==
  /\ fatal = NoError
  /\ taskpc = "none"
  /\ queue # << >>
  /\ queue' = Tail(queue)
  /\ tres' = Head(queue).f
  /\ taskpc' = "running"
  /\ UNCHANGED <<fatal, bound, srpc, fret>>
  /\ UNCHANGED <<tgvars, pfvars>>

\* the lambda: promise.setValue(std::move(std::invoke(f))), first statement
Task_setValue_assert ==
  /\ taskpc = "running"
  /\ Len(calls) = 0
  /\ Promise_setValue_assert("captured", tres)

\* the lambda: promise.setValue(...), second statement
Task_setValue_store == Promise_setValue_store("captured")

\* the lambda: promise.setValue(...), third statement
Task_setValue_signal == Promise_setValue_signal("captured")

\* the lambda has returned: the Task and the Promise it captured are destroyed
Task_end ==
  /\ taskpc = "running"
  /\ Len(calls) > 0
  /\ Promise_dtor("captured")

\* the caller of schedule_returns uses the Future it got
Caller_get_call == Returned /\ Future_get_call(RetF)

Caller_get == Future_get(RetF)

Caller_poll_call == Returned /\ Future_poll_call(RetF)

Caller_poll == Future_poll(RetF)

Caller_read == Returned /\ Future_read(RetF)

InitSR ==
  /\ fatal = NoError
  /\ bound \in BOOLEAN
  /\ fret \in Values
  /\ srpc = "start"
  /\ queue = << >>
  /\ taskpc = "none"
  /\ tres = NoValue
  /\ PFIdle
  /\ TGInit

NextSR ==
  \/ schedule_returns_assert
  \/ schedule_returns_promise
  \/ schedule_returns_enqueue
  \/ schedule_returns_getFuture
  \/ schedule_returns_return
  \/ Task_invoke
  \/ Task_setValue_assert
  \/ Task_setValue_store
  \/ Task_setValue_signal
  \/ Task_end
  \/ Caller_get_call
  \/ Caller_get
  \/ Caller_poll_call
  \/ Caller_poll
  \/ Caller_read

SpecSR == InitSR /\ [][NextSR]_vars

(* ------------------------ schedule_returns: claims ---------------------- *)

\* C4: with a bound scheduler, the Future schedule_returns returns shares the
\* state of the Promise the Task sets: it is ready only once the Task has set
\* f's result, and what get() or poll() hand out reads as f's return value.
C4_FutureYieldsResult ==
  bound =>
    /\ fstate[RetF] # "unborn" => fshared[RetF] = TheShared
    /\ fres[RetF] \in {"ref", "ptr"} => SetCompleted
    /\ fval[RetF] # NoValue => fval[RetF] = fret

\* C9: without a bound scheduler schedule_returns stops at its first
\* statement with the usage error: no Promise is created, no Task is
\* enqueued or run, and no other error is raised.
C9_NoSchedulerNoEnqueue ==
  ~bound =>
    /\ srpc = "start"
    /\ fatal \in {NoError, NoBoundScheduler}
    /\ \A p \in PromiseHandles : pstate[p] = "unborn"
    /\ queue = << >>
    /\ taskpc = "none"

\* C9 witness: schedule_returns was called without a bound scheduler and
\* reported the usage error.
C9_Witness ==
  /\ ~bound
  /\ fatal = NoBoundScheduler
  /\ queue = << >>

\* the handles that hold a share of the PromiseShared
Holders ==
  {p \in PromiseHandles : pstate[p] = "alive" /\ pshared[p] = TheShared}
    \cup {f \in Derived : fstate[f] # "destroyed"}

\* C18: the PromiseShared lives as long as one holder does. Once the Promise
\* has been set and destroyed, every get() and poll() that returns on a
\* remaining derived Future hands out the stored value, which stays the value
\* set; and a step that drops a Future changes neither the value, the event
\* nor the Promise, nor what any other Future holds or has been given.
C18_SharedOutlivesPromise ==
  [][/\ (pstate["promise"] = "destroyed" /\ SetCompleted) =>
          /\ value' = calls[1]
          /\ \A f \in Derived :
               /\ (fstate[f] = "get_wait" /\ fstate'[f] = "idle") =>
                    fres'[f] = "ref" /\ fatal' = NoError
               /\ (fstate[f] = "polling" /\ fstate'[f] = "idle") =>
                    fres'[f] = "ptr" /\ fatal' = NoError
               /\ (fstate[f] = "get_wait" /\ fatal = NoError) =>
                    ENABLED Future_get(f)
               /\ (fval[f] = NoValue /\ fval'[f] # NoValue) =>
                    fval'[f] = calls[1]
     /\ \A f \in Futures :
          (fstate[f] # "destroyed" /\ fstate'[f] = "destroyed") =>
            /\ UNCHANGED <<fatal, value, signalled, pstate, pshared, calls>>
            /\ \A g \in Futures \ {f} :
                 /\ fstate'[g] = fstate[g]
                 /\ fshared'[g] = fshared[g]
                 /\ fres'[g] = fres[g]
                 /\ fval'[g] = fval[g]]_vars

\* C18 witness: the Promise was set and then destroyed, one derived Future
\* has been dropped, and the last holder is a Future inside get().
C18_Witness ==
  /\ fatal = NoError
  /\ pstate["promise"] = "destroyed"
  /\ SetCompleted
  /\ \E f \in Derived : fstate[f] = "destroyed"
  /\ \E g \in Derived : Holders = {g} /\ fstate[g] = "get_wait"

\* the Promise handles that refer to the PromiseShared
Owners == {p \in PromiseHandles : pshared[p] = TheShared}

\* C19: the move in schedule_returns hands the shared pointer of the local
\* `promise` to the Promise captured by the Task and empties the local one,
\* so at most one Promise handle refers to the PromiseShared; the Future that
\* getFuture() makes from the moved-from handle does not hold the captured
\* Promise's PromiseShared, and destroying the moved-from handle leaves the
\* value, the event and the captured Promise as they were.
C19_MoveTransfersShared ==
  [][/\ Cardinality(Owners) <= 1
     /\ (srpc = "enqueue" /\ srpc' = "tail") =>
          /\ pshared'["captured"] = pshared["promise"]
          /\ pshared'["promise"] = NoShared
     /\ pstate["captured"] # "unborn" => pshared["promise"] = NoShared
     /\ fstate[RetF] # "unborn" => fshared[RetF] # pshared["captured"]
     /\ (pstate["promise"] = "alive" /\ pstate'["promise"] = "destroyed") =>
          /\ UNCHANGED <<value, signalled>>
          /\ pstate'["captured"] = pstate["captured"]
          /\ pshared'["captured"] = pshared["captured"]]_vars

\* C19 witness: schedule_returns has returned: the moved-from local Promise
\* made the Future and was destroyed, while the captured Promise is alive
\* and is the only handle referring to the PromiseShared.
C19_Witness ==
  /\ fatal = NoError
  /\ Returned
  /\ fstate[RetF] # "unborn"
  /\ fshared[RetF] = NoShared
  /\ pstate["captured"] = "alive"
  /\ Owners = {"captured"}

====
